---- MODULE Spec2Model ----
\* Endpoint probing of the Golf Course API clients:
\*   golfapitest.py : search_courses, search_courses_by_state, get_course_by_id,
\*                    health_check
\*   golf_cli.py    : search_courses_by_name
\* One step of the model is one iteration of a probe loop: one HTTP request,
\* the classification of its response and the loop control that follows.
\* Specifications:
\*   Spec           the probe operations
\*   SpecLive       the probe operations under weak fairness of the step
\*   SpecCreate     golf_cli.py's create_scorecard on the games table, one
\*                  step per creation
\*   SpecNormalize  the course normalization applied to response bodies
\*   SpecCard       golf_cli.py's menu operations on the scores of one game:
\*                  record_score, show_scorecard, total_scores and the
\*                  interactive scorecard, one step per menu operation or key
EXTENDS Integers, Sequences, FiniteSets, TLC

VARIABLES
    env_search_path,  \* GOLF_API_SEARCH_PATH of the process environment
    op,               \* the operation in progress ("none" before a call)
    phase,            \* "search" or "account": the probe loop in progress
    pc,               \* "idle" | "probing" | "returned" | "raised"
    paths,            \* the operation's ordered path list
    keys,             \* the operation's ordered parameter-name list
    loop,             \* position of the nested for loops: [p, k, s]
    log,              \* requests issued by the probe loop in progress
    resp,             \* the response to the last request
    notFound,         \* paths of this loop that have answered 404
    answered,         \* paths of this loop with an outcome other than 404
    stub,             \* every response so far is the one StubService gives
    result,           \* the returned list (search), <<detail>> (get by id)
    exc,              \* the exception that left the operation ("" if none)
    email,            \* health_check's argument, once read: an email is given
    report,           \* health_check's report: [key_valid, account]
    \* normalization (SpecNormalize)
    data,             \* the decoded response body handed to the normalization
    records,          \* the normalized records
    again,            \* a record and its second normalization: [of, as]
    npc,              \* "input" | "normalized" | "normalized_cli" | "renormalized"
    \* scorecard (SpecCard)
    players,          \* names of the selected game's players, ORDER BY name
    scores,           \* rows of the scores table for the selected game
    mode,             \* "menu" | "grid" (the interactive scorecard is running)
    cursor,           \* interactive_scorecard's cursor: [hole, player]
    screen,           \* the last render of the interactive scorecard: the
                      \* rows and the cursor that render_tokens read
    printed,          \* what the last menu operation printed
    tick,             \* flips with every key event the application receives
    conns,            \* number of open connections to the store
    \* create_scorecard (SpecCreate)
    games,            \* the committed games, oldest first:
                      \* [game_id, course_name, game_date, players]
    created           \* the last create_scorecard: what was typed and what
                      \* it did

probe_vars == <<env_search_path, op, phase, pc, paths, keys, loop, log, resp,
                notFound, answered, stub, result, exc, email, report>>

norm_vars == <<data, records, again, npc>>

card_vars == <<players, scores, mode, cursor, screen, printed, tick, conns>>

create_vars == <<games, created>>

\* What the probe operations leave alone.
other_vars == <<norm_vars, card_vars, create_vars>>

vars == <<probe_vars, other_vars>>

----------------------------------------------------------------------------
\* Bounds of the model: the candidate lists are cut to their first elements.

NumSearchPaths == 1
NumQueryKeys == 2
NumStateKeys == 2
NumHealthPaths == 3

\* Python's None, among string values.
None == "<None>"

\* Python truthiness of a string-or-None value.
Truthy(v) == v # None /\ v # ""

\* Python's `a or b`.
Or(a, b) == IF Truthy(a) THEN a ELSE b

Take(seq, n) == SubSeq(seq, 1, IF n < Len(seq) THEN n ELSE Len(seq))

Contains(seq, x) == \E i \in 1..Len(seq) : seq[i] = x

\* Mutant: every path is appended, seen before or not.
AppendAll(acc, xs) == acc \o xs

\* `for p in xs: if p not in acc: acc.append(p)`
RECURSIVE AppendNew(_, _)
AppendNew(acc, xs) ==
    IF xs = <<>> THEN acc
    ELSE AppendNew(IF Contains(acc, Head(xs)) THEN acc ELSE Append(acc, Head(xs)),
                   Tail(xs))

----------------------------------------------------------------------------
\* Configuration (golfapitest.py)

\* os.getenv("GOLF_API_SEARCH_PATH"): unset, or the path golf_cli.py's
\* docstring suggests as override.
EnvChoices == {None, "/api/v1/courses/search"}

AUTH_STYLES == <<"key", "bearer", "x-api-key", "query">>

QUERY_KEYS == Take(<<"q", "query", "name", "course", "search">>, NumQueryKeys)

STATE_KEYS ==
    Take(<<"state", "state_code", "region", "admin_area", "province",
           "us_state", "countrySubdivision">>, NumStateKeys)

FALLBACK_SEARCH_PATHS ==
    Take(<<"/v1/courses/search", "/api/v1/courses/search", "/v1/search/courses",
           "/api/v1/search/courses", "/v1/courses", "/api/v1/courses">>,
         NumSearchPaths)

\* [p for p in [EXPLICIT_SEARCH_PATH, ...] if p]
CANDIDATE_SEARCH_PATHS(explicit) ==
    IF Truthy(explicit) THEN <<explicit>> \o FALLBACK_SEARCH_PATHS
    ELSE FALLBACK_SEARCH_PATHS

CANDIDATE_GET_BY_ID_PATHS == <<"/v1/courses/{id}", "/api/v1/courses/{id}">>

CANDIDATE_HEALTH_PATHS ==
    Take(<<"/v1/health", "/api/v1/health", "/v1/account", "/api/v1/account",
           "/v1/accounts/lookup", "/api/v1/accounts/lookup">>, NumHealthPaths)

\* The path list search_courses and search_courses_by_state build.
SearchPaths(explicit) ==
    AppendNew(IF Truthy(explicit) THEN <<explicit>> ELSE <<>>,
              CANDIDATE_SEARCH_PATHS(explicit))

\* golf_cli.py: GOLF_API_SEARCH_PATH = os.getenv(..., "/v1/courses/search")
GOLF_API_SEARCH_PATH(env) == IF env = None THEN "/v1/courses/search" ELSE env

\* golf_cli.py: ordered_paths of search_courses_by_name.
OrderedPaths(env) ==
    AppendNew(<<>>, <<Or(GOLF_API_SEARCH_PATH(env), "/v1/courses/search"),
                      "/api/v1/courses/search">>)

----------------------------------------------------------------------------
\* JSON bodies and responses

\* A JSON object is a function from its keys to string values; an element that
\* is not an object (a string, a number) carries the key "$scalar".
IsObject(c) == "$scalar" \notin DOMAIN c

\* dict.get
Get(c, k) == IF k \in DOMAIN c THEN c[k] ELSE None

Course1 == ("id" :> "7") @@ ("name" :> "Pebble Beach") @@ ("city" :> "Monterey")
             @@ ("state" :> "CA") @@ ("country" :> "US")
Course2 == ("course_id" :> "9") @@ ("course_name" :> "Augusta")
             @@ ("town" :> "Augusta") @@ ("region" :> "GA")
Scalar1 == ("$scalar" :> "x")

\* A response body: kind says what the content is, items the list it holds.
\*   nocontent  resp.content is empty
\*   notjson    resp.json() fails
\*   number     a JSON scalar
\*   list       a bare JSON list
\*   courses, results, data   an object exposing the list under that key
\*   object     an object with none of the known keys ({} when items is empty)
Body(kind, items) == [kind |-> kind, items |-> items]

NoBody == Body("nocontent", <<>>)

Bodies ==
    { NoBody, Body("notjson", <<>>), Body("number", <<>>),
      Body("list", <<>>), Body("list", <<Course1>>), Body("list", <<Scalar1>>),
      Body("object", <<>>), Body("courses", <<Course1, Course2>>),
      Body("data", <<Course2>>) }

\* requests raised an exception (no response; Timeout stands for every
\* RequestException of the transport), or the HTTP status and body.
Response(e, status, body) == [exc |-> e, status |-> status, body |-> body]

NoResponse == Response("", 0, NoBody)

Responses ==
    { Response("Timeout", 0, NoBody) }
    \cup { Response("", s, NoBody) : s \in {401, 403, 404, 500} }
    \cup { Response("", 200, b) : b \in Bodies }

----------------------------------------------------------------------------
\* Normalization

\* golfapitest.py _normalize_courses: the list it iterates over.
RawCourses(body) ==
    IF body.kind \in {"list", "courses", "results", "data"} THEN body.items
    ELSE <<>>

\* golf_cli.py search_courses_by_name: raw_courses (no "data" key).
RawCoursesCli(body) ==
    IF body.kind \in {"list", "courses", "results"} THEN body.items
    ELSE <<>>

\* data.get on a JSON scalar, or c.get on an element that is no object,
\* raises AttributeError.
NormalizeRaises(body, raw) ==
    \/ body.kind = "number"
    \/ \E i \in 1..Len(raw) : ~IsObject(raw[i])

\* Mutant: an element without a name keeps no name instead of the placeholder.
NormalizeOneNoPlaceholder(c) ==
    [id      |-> Or(Or(Get(c, "id"), Get(c, "_id")), Get(c, "course_id")),
     name    |-> Or(Get(c, "name"), Get(c, "course_name")),
     city    |-> Or(Or(Get(c, "city"), Get(c, "town")), ""),
     state   |-> Or(Or(Get(c, "state"), Get(c, "region")), ""),
     country |-> Or(Get(c, "country"), ""),
     raw     |-> c]

\* The record's "_raw" key is the field raw.
NormalizeOne(c) ==
    [id      |-> Or(Or(Get(c, "id"), Get(c, "_id")), Get(c, "course_id")),
     name    |-> Or(Or(Get(c, "name"), Get(c, "course_name")), "(Unnamed Course)"),
     city    |-> Or(Or(Get(c, "city"), Get(c, "town")), ""),
     state   |-> Or(Or(Get(c, "state"), Get(c, "region")), ""),
     country |-> Or(Get(c, "country"), ""),
     raw     |-> c]

NormalizeOneCli(c) ==
    [id      |-> Or(Or(Get(c, "id"), Get(c, "_id")), Get(c, "course_id")),
     name    |-> Or(Or(Get(c, "name"), Get(c, "course_name")), "(Unnamed Course)"),
     city    |-> Or(Or(Get(c, "city"), Get(c, "town")), ""),
     state   |-> Or(Or(Get(c, "state"), Get(c, "region")), ""),
     country |-> Or(Get(c, "country"), "")]

normalize_courses(body) ==
    [i \in 1..Len(RawCourses(body)) |-> NormalizeOne(RawCourses(body)[i])]

normalize_courses_cli(body) ==
    [i \in 1..Len(RawCoursesCli(body)) |-> NormalizeOneCli(RawCoursesCli(body)[i])]

----------------------------------------------------------------------------
\* Classification of one response: what the loop body does with it.
\*   continue  next auth style        break   leave the auth-style loop
\*   return    return `results`       raise   an exception leaves the function

Ctl(c, results, e) == [ctl |-> c, results |-> results, exc |-> e]

\* golfapitest.py: `if resp.status_code in (401, 403): continue`
AuthMismatch(status) == status \in {401, 403}

\* Mutant: a 404 is not told apart from the other error statuses.
WrongPathNever(status) == FALSE

\* `if resp.status_code == 404: break`
WrongPath(status) == status = 404

\* Mutant: `return results` without the `if results:` test.
HasResultsAlways(results) == TRUE

\* `if results:` before `return results`
HasResults(results) == results # <<>>

\* The try body of search_courses and search_courses_by_state.  jsonCaught:
\* the installed requests raises its own JSONDecodeError, a RequestException
\* (2.27 and later); before that resp.json() raises a plain ValueError.
SearchOutcome(r, jsonCaught) ==
    IF r.exc # "" THEN Ctl("continue", <<>>, "")
    ELSE IF AuthMismatch(r.status) THEN Ctl("continue", <<>>, "")
    ELSE IF WrongPath(r.status) THEN Ctl("break", <<>>, "")
    ELSE IF r.status >= 400 THEN Ctl("continue", <<>>, "")
    ELSE IF r.body.kind = "notjson"
         THEN IF jsonCaught THEN Ctl("continue", <<>>, "")
              ELSE Ctl("raise", <<>>, "ValueError")
    ELSE IF NormalizeRaises(r.body, RawCourses(r.body))
         THEN Ctl("raise", <<>>, "AttributeError")
    ELSE IF HasResults(normalize_courses(r.body))
         THEN Ctl("return", normalize_courses(r.body), "")
    ELSE Ctl("continue", <<>>, "")

\* The try body of get_course_by_id: any 2xx returns the parsed body.
GetByIdOutcome(r, jsonCaught) ==
    IF r.exc # "" THEN Ctl("continue", <<>>, "")
    ELSE IF AuthMismatch(r.status) THEN Ctl("continue", <<>>, "")
    ELSE IF WrongPath(r.status) THEN Ctl("break", <<>>, "")
    ELSE IF r.status >= 400 THEN Ctl("continue", <<>>, "")
    ELSE IF r.body.kind = "notjson"
         THEN IF jsonCaught THEN Ctl("continue", <<>>, "")
              ELSE Ctl("raise", <<>>, "ValueError")
    ELSE Ctl("return", <<r.body>>, "")

\* golf_cli.py: `if resp.status_code == 401: continue`
AuthMismatchCli(status) == status = 401

\* The try body of search_courses_by_name: 404 breaks, 401 continues, any
\* other error status raises HTTPError (caught: continue), and a 2xx returns
\* the normalized courses whether or not there are any.
ByNameOutcome(r, jsonCaught) ==
    IF r.exc # "" THEN Ctl("continue", <<>>, "")
    ELSE IF WrongPath(r.status) THEN Ctl("break", <<>>, "")
    ELSE IF AuthMismatchCli(r.status) THEN Ctl("continue", <<>>, "")
    ELSE IF r.status >= 400 THEN Ctl("continue", <<>>, "")
    ELSE IF r.body.kind = "notjson"
         THEN IF jsonCaught THEN Ctl("continue", <<>>, "")
              ELSE Ctl("raise", <<>>, "ValueError")
    ELSE IF NormalizeRaises(r.body, RawCoursesCli(r.body))
         THEN Ctl("raise", <<>>, "AttributeError")
    ELSE Ctl("return", normalize_courses_cli(r.body), "")

\* resp.ok
Ok(status) == status < 400

\* health_check: account_payload after a 2xx: resp.json(), or {"_raw": text}
\* when that fails.
AccountPayload(body) ==
    IF body.kind \in {"notjson", "nocontent"} THEN Body("_raw", <<>>) ELSE body

\* Python truthiness of account_payload: None, {} and [] are falsy.
PayloadTruthy(payload) ==
    /\ payload # <<>>
    /\ payload[1].kind # "object"
    /\ (payload[1].kind = "list" => payload[1].items # <<>>)

\* The try body of health_check's account probe; results holds the new
\* account_payload when the response is a 2xx.
HealthOutcome(r) ==
    IF r.exc # "" THEN Ctl("continue", <<>>, "")
    ELSE IF WrongPath(r.status) THEN Ctl("break", <<>>, "")
    ELSE IF AuthMismatch(r.status) THEN Ctl("continue", <<>>, "")
    ELSE IF Ok(r.status) THEN Ctl("break", <<AccountPayload(r.body)>>, "")
    ELSE Ctl("continue", <<>>, "")

----------------------------------------------------------------------------
\* Loop control: `for path in paths: for key in keys: for style in AUTH_STYLES`
\* (operations without a parameter-name loop have a single parameter name).

Start == [p |-> 1, k |-> 1, s |-> 1]

Request(c) == [path |-> paths[c.p], key |-> keys[c.k], style |-> AUTH_STYLES[c.s]]

\* The path loop is exhausted.
Exhausted(c) == c.p > Len(paths)

NextPath(c) == [p |-> c.p + 1, k |-> 1, s |-> 1]

\* Mutant: the parameter-name loop outside the path loop.
NextKeyPathInner(c) ==
    IF c.p < Len(paths) THEN [p |-> c.p + 1, k |-> c.k, s |-> 1]
    ELSE IF c.k < Len(keys) THEN [p |-> 1, k |-> c.k + 1, s |-> 1]
    ELSE NextPath(c)

\* `break` in the auth-style loop, or its exhaustion: the enclosing loop goes on.
NextKey(c) ==
    IF c.k < Len(keys) THEN [p |-> c.p, k |-> c.k + 1, s |-> 1] ELSE NextPath(c)

\* Mutant: `continue` leaves the auth-style loop as `break` does.
NextStyleAsBreak(c) == NextKey(c)

\* `continue` in the auth-style loop.
NextStyle(c) ==
    IF c.s < Len(AUTH_STYLES) THEN [p |-> c.p, k |-> c.k, s |-> c.s + 1]
    ELSE NextKey(c)

After(o, c) == IF o.ctl = "break" THEN NextKey(c) ELSE NextStyle(c)

\* The stub service of the two-path scenario: 404 on the first path, on the
\* second 401 for style key and one course for style bearer.
StubService(c) ==
    IF c.p = 1 THEN Response("", 404, NoBody)
    ELSE IF c.p = 2 /\ AUTH_STYLES[c.s] = "bearer"
         THEN Response("", 200, Body("list", <<Course1>>))
    ELSE Response("", 401, NoBody)

----------------------------------------------------------------------------
\* State machine

\* No normalization is under way.
NormIdle == data = NoBody /\ records = <<>> /\ again = <<>> /\ npc = "idle"

\* No game is selected.
NoCursor == [hole |-> 0, player |-> 0]

\* Nothing is drawn.
NoScreen == [rows |-> {}, cursor |-> NoCursor]

CardIdle ==
    /\ players = <<>>
    /\ scores = {}
    /\ mode = "none"
    /\ cursor = NoCursor
    /\ screen = NoScreen
    /\ printed = <<>>
    /\ tick = FALSE
    /\ conns = 0

\* No create_scorecard has run.
NotCreated ==
    [outcome |-> "none", prefill |-> None, course |-> "", date_str |-> "",
     typed |-> <<>>, game_id |-> ""]

CreateIdle ==
    /\ games = <<>>
    /\ created = NotCreated

Init ==
    /\ env_search_path \in EnvChoices
    /\ op = "none"
    /\ phase = "none"
    /\ pc = "idle"
    /\ paths = <<>>
    /\ keys = <<>>
    /\ loop = Start
    /\ log = <<>>
    /\ resp = NoResponse
    /\ notFound = {}
    /\ answered = {}
    /\ stub = TRUE
    /\ result = <<>>
    /\ exc = ""
    /\ email = FALSE
    /\ report = [key_valid |-> FALSE, account |-> <<>>]
    /\ NormIdle
    /\ CardIdle
    /\ CreateIdle

\* Entering a probe loop over path list ps and parameter names ks.
Enter(o, ph, ps, ks) ==
    /\ op' = o
    /\ phase' = ph
    /\ pc' = "probing"
    /\ paths' = ps
    /\ keys' = ks
    /\ loop' = Start
    /\ log' = <<>>
    /\ resp' = NoResponse
    /\ notFound' = {}
    /\ answered' = {}
    /\ stub' = TRUE

\* One request at the loop position, answered by r.
Issue(r) ==
    /\ log' = Append(log, Request(loop))
    /\ resp' = r
    /\ notFound' = IF r.exc = "" /\ r.status = 404
                   THEN notFound \cup {paths[loop.p]} ELSE notFound
    /\ answered' = IF r.exc = "" /\ r.status = 404
                   THEN answered ELSE answered \cup {paths[loop.p]}
    /\ stub' = (stub /\ r = StubService(loop))

Return(res) ==
    /\ pc' = "returned"
    /\ result' = res
    /\ UNCHANGED <<loop, exc>>

Raise(e) ==
    /\ pc' = "raised"
    /\ exc' = e
    /\ UNCHANGED <<loop, result>>

Goto(n) ==
    /\ loop' = n
    /\ UNCHANGED <<pc, result, exc>>

\* One iteration of a loop that returns `empty` when the paths are exhausted.
Iterate(r, o, empty) ==
    /\ Issue(r)
    /\ IF o.ctl = "raise" THEN Raise(o.exc)
       ELSE IF o.ctl = "return" THEN Return(o.results)
       ELSE IF Exhausted(After(o, loop)) THEN Return(empty)
       ELSE Goto(After(o, loop))
    /\ UNCHANGED <<env_search_path, op, phase, paths, keys, email, report>>

call_search_courses ==
    /\ pc = "idle"
    /\ UNCHANGED other_vars
    /\ Enter("search_courses", "search", SearchPaths(env_search_path), QUERY_KEYS)
    /\ UNCHANGED <<env_search_path, result, exc, email, report>>

search_courses ==
    /\ pc = "probing" /\ op = "search_courses"
    /\ UNCHANGED other_vars
    /\ \E r \in Responses, jsonCaught \in BOOLEAN :
          Iterate(r, SearchOutcome(r, jsonCaught), <<>>)

call_search_courses_by_state ==
    /\ pc = "idle"
    /\ UNCHANGED other_vars
    /\ Enter("search_courses_by_state", "search", SearchPaths(env_search_path),
             STATE_KEYS)
    /\ UNCHANGED <<env_search_path, result, exc, email, report>>

search_courses_by_state ==
    /\ pc = "probing" /\ op = "search_courses_by_state"
    /\ UNCHANGED other_vars
    /\ \E r \in Responses, jsonCaught \in BOOLEAN :
          Iterate(r, SearchOutcome(r, jsonCaught), <<>>)

call_get_course_by_id ==
    /\ pc = "idle"
    /\ UNCHANGED other_vars
    /\ Enter("get_course_by_id", "detail", CANDIDATE_GET_BY_ID_PATHS, <<"">>)
    /\ UNCHANGED <<env_search_path, result, exc, email, report>>

\* The result is <<detail>>, or <<>> for None.
get_course_by_id ==
    /\ pc = "probing" /\ op = "get_course_by_id"
    /\ UNCHANGED other_vars
    /\ \E r \in Responses, jsonCaught \in BOOLEAN :
          Iterate(r, GetByIdOutcome(r, jsonCaught), <<>>)

\* golf_cli.py: without GOLF_API_KEY the function returns [] at once.
call_search_courses_by_name ==
    /\ pc = "idle"
    /\ UNCHANGED other_vars
    /\ \E key_set \in BOOLEAN :
          IF key_set
          THEN /\ Enter("search_courses_by_name", "search",
                        OrderedPaths(env_search_path), <<"q">>)
               /\ UNCHANGED <<result, exc>>
          ELSE /\ op' = "search_courses_by_name"
               /\ Return(<<>>)
               /\ UNCHANGED <<phase, paths, keys, log, resp, notFound, answered, stub>>
    /\ UNCHANGED <<env_search_path, email, report>>

search_courses_by_name ==
    /\ pc = "probing" /\ op = "search_courses_by_name"
    /\ UNCHANGED other_vars
    /\ \E r \in Responses, jsonCaught \in BOOLEAN :
          Iterate(r, ByNameOutcome(r, jsonCaught), <<>>)

\* health_check(email): search_courses("test", limit=1) first.
call_health_check ==
    /\ pc = "idle"
    /\ UNCHANGED other_vars
    /\ Enter("health_check", "search", SearchPaths(env_search_path), QUERY_KEYS)
    /\ report' = [key_valid |-> FALSE, account |-> <<>>]
    /\ UNCHANGED <<env_search_path, result, exc, email>>

\* search_courses has returned res to health_check.
Searched(res) ==
    /\ phase' = "searched"
    /\ result' = res
    /\ UNCHANGED <<pc, loop, exc>>

\* An iteration of the search_courses call inside health_check.
HealthSearch(r, o) ==
    /\ Issue(r)
    /\ IF o.ctl = "raise" THEN Raise(o.exc) /\ UNCHANGED phase
       ELSE IF o.ctl = "return" THEN Searched(o.results)
       ELSE IF Exhausted(After(o, loop)) THEN Searched(<<>>)
       ELSE Goto(After(o, loop)) /\ UNCHANGED phase
    /\ UNCHANGED <<env_search_path, op, paths, keys, email, report>>

\* report["key_valid"] = bool(results), then the account probe if an email is
\* given (`if email:` is the first use of the argument, which is drawn here).
HealthKeyValid ==
    /\ report' = [report EXCEPT !.key_valid = (result # <<>>)]
    /\ email' \in BOOLEAN
    /\ IF email'
       THEN /\ Enter("health_check", "account", CANDIDATE_HEALTH_PATHS, <<"email">>)
            /\ UNCHANGED <<result, exc>>
       ELSE /\ pc' = "returned"
            /\ UNCHANGED <<op, phase, paths, keys, loop, log, resp, notFound,
                           answered, stub, result, exc>>
    /\ UNCHANGED env_search_path

\* An iteration of the account probe: a 2xx sets account_payload and breaks
\* the auth-style loop; `if account_payload: break` follows that loop.
HealthAccount(r, o) ==
    LET payload == IF o.results # <<>> THEN o.results ELSE report.account
        n == After(o, loop)
    IN  /\ Issue(r)
        /\ report' = [report EXCEPT !.account = payload]
        /\ IF \/ (n.p # loop.p /\ PayloadTruthy(payload))
              \/ Exhausted(n)
           THEN pc' = "returned" /\ UNCHANGED <<loop, result, exc>>
           ELSE Goto(n)
        /\ UNCHANGED <<env_search_path, op, phase, paths, keys, email>>

health_check ==
    /\ pc = "probing" /\ op = "health_check"
    /\ UNCHANGED other_vars
    /\ \/ /\ phase = "search"
          /\ \E r \in Responses, jsonCaught \in BOOLEAN :
                HealthSearch(r, SearchOutcome(r, jsonCaught))
       \/ /\ phase = "searched"
          /\ HealthKeyValid
       \/ /\ phase = "account"
          /\ \E r \in Responses : HealthAccount(r, HealthOutcome(r))

Next ==
    \/ call_search_courses
    \/ search_courses
    \/ call_search_courses_by_state
    \/ search_courses_by_state
    \/ call_get_course_by_id
    \/ get_course_by_id
    \/ call_search_courses_by_name
    \/ search_courses_by_name
    \/ call_health_check
    \/ health_check

Spec == Init /\ [][Next]_vars

\* The probe operations with progress: every request is made with a timeout
\* (`requests.get(..., timeout=12)`), so a loop that can take a step does.
SpecLive == Init /\ [][Next]_vars /\ WF_vars(Next)

----------------------------------------------------------------------------
\* The normalization alone, on a wider range of course elements than the
\* probe responses carry.

MaxCourses == 1

\* A key the element does not have.
Absent == "<absent>"

\* The element with the keys of f whose value is not Absent.
Present(f) == [k \in {x \in DOMAIN f : f[x] # Absent} |-> f[k]]

\* Course elements: each key absent, empty or filled.
CourseInputs ==
    { Present(f) :
        f \in [id : {Absent, "7"}, course_id : {Absent, ""},
               name : {Absent, "", "Pebble Beach"},
               course_name : {Absent, "", "Augusta"},
               city : {Absent, ""}, town : {Absent, "Monterey"}] }

RECURSIVE ListsOf(_, _)
ListsOf(S, n) ==
    IF n = 0 THEN {<<>>}
    ELSE ListsOf(S, n - 1) \cup
         { Append(l, x) : l \in {m \in ListsOf(S, n - 1) : Len(m) = n - 1}, x \in S }

\* Bodies that decode to a bare list or to an object with the list under a
\* known key.
NormInputs ==
    { Body(kind, items) : kind \in {"list", "courses", "data"},
                          items \in ListsOf(CourseInputs, MaxCourses) }

\* No probe operation is under way.
ProbeIdle ==
    /\ env_search_path = None
    /\ op = "none"
    /\ phase = "none"
    /\ pc = "idle"
    /\ paths = <<>>
    /\ keys = <<>>
    /\ loop = Start
    /\ log = <<>>
    /\ resp = NoResponse
    /\ notFound = {}
    /\ answered = {}
    /\ stub = TRUE
    /\ result = <<>>
    /\ exc = ""
    /\ email = FALSE
    /\ report = [key_valid |-> FALSE, account |-> <<>>]

InitNormalize ==
    /\ ProbeIdle
    /\ CardIdle
    /\ CreateIdle
    /\ data \in NormInputs
    /\ records = <<>>
    /\ again = <<>>
    /\ npc = "input"

\* golfapitest.py: results = _normalize_courses(data)
call_normalize_courses ==
    /\ npc = "input"
    /\ records' = normalize_courses(data)
    /\ npc' = "normalized"
    /\ UNCHANGED <<probe_vars, card_vars, create_vars, data, again>>

\* golf_cli.py: the normalization inside search_courses_by_name
call_normalize_courses_cli ==
    /\ npc = "input"
    /\ records' = normalize_courses_cli(data)
    /\ npc' = "normalized_cli"
    /\ UNCHANGED <<probe_vars, card_vars, create_vars, data, again>>

\* _normalize_courses([r]) for a record r that _normalize_courses produced.
renormalize_courses ==
    /\ npc = "normalized"
    /\ \E i \in 1..Len(records) :
          again' = [of |-> records[i],
                    as |-> normalize_courses(Body("list", <<records[i]>>))]
    /\ npc' = "renormalized"
    /\ UNCHANGED <<probe_vars, card_vars, create_vars, data, records>>

NextNormalize ==
    \/ call_normalize_courses
    \/ call_normalize_courses_cli
    \/ renormalize_courses

SpecNormalize == InitNormalize /\ [][NextNormalize]_vars

----------------------------------------------------------------------------
\* Vocabulary of the properties

IndexOf(seq, x) == CHOOSE i \in 1..Len(seq) : seq[i] = x

\* Position of a request in the matrix: path outer, parameter name middle,
\* auth style inner.
Rank(q) ==
    <<IndexOf(paths, q.path), IndexOf(keys, q.key), IndexOf(AUTH_STYLES, q.style)>>

\* Strict lexicographic order on requests.
Before(a, b) ==
    LET ra == Rank(a)
        rb == Rank(b)
    IN  \/ ra[1] < rb[1]
        \/ ra[1] = rb[1] /\ ra[2] < rb[2]
        \/ ra[1] = rb[1] /\ ra[2] = rb[2] /\ ra[3] < rb[3]

LastRequest == log[Len(log)]

\* The step issues one more request.
Issued == Len(log') = Len(log) + 1

\* The last combination of the matrix.
FinalRequest ==
    [path |-> paths[Len(paths)], key |-> keys[Len(keys)],
     style |-> AUTH_STYLES[Len(AUTH_STYLES)]]

RequestsTo(path) == Cardinality({i \in 1..Len(log) : log[i].path = path})

\* search_courses is running or has ended: called directly or by health_check.
InSearchCourses ==
    \/ op = "search_courses"
    \/ op = "health_check" /\ phase \in {"search", "searched"}

InSearch == InSearchCourses \/ op = "search_courses_by_state"

\* The search loop has ended: it returned or an exception left it.
SearchEnded ==
    \/ pc \in {"returned", "raised"}
    \/ op = "health_check" /\ phase = "searched"

Is2xx(r) == r.exc = "" /\ r.status >= 200 /\ r.status < 300

\* The number of course elements a 2xx body carries, per the normalization
\* contract: a bare list, or the list under courses, results or data.
CourseCount(body) ==
    IF body.kind \in {"list", "courses", "results", "data"} THEN Len(body.items)
    ELSE 0

WellFormed(body) ==
    /\ body.kind \notin {"notjson", "number"}
    /\ \A i \in 1..Len(body.items) : IsObject(body.items[i])

\* Probe outcomes of a search.
IsSuccess(r) == Is2xx(r) /\ WellFormed(r.body) /\ CourseCount(r.body) > 0
IsEmptyResult(r) == Is2xx(r) /\ WellFormed(r.body) /\ CourseCount(r.body) = 0
IsAuthRejected(r) == r.exc = "" /\ r.status \in {401, 403}

NextStyleOf(style) == AUTH_STYLES[IndexOf(AUTH_STYLES, style) + 1]

----------------------------------------------------------------------------
\* C1: in search_courses and search_courses_by_state the requests issued form
\* a strictly increasing sequence in the order path, parameter name, auth
\* style (each request comes before its successor in that order, which is
\* transitive), and the search has ended as soon as a response is classified as
\* Success (so a Success is never followed by a request of the search).
C1_ProbeOrder ==
    InSearch =>
        /\ \A i \in 1..(Len(log) - 1) : Before(log[i], log[i + 1])
        /\ (log # <<>> /\ IsSuccess(resp)) => SearchEnded

\* A search that skipped combinations after a 404 and ended on a Success.
C1_Witness ==
    /\ op = "search_courses_by_state"
    /\ pc = "returned"
    /\ IsSuccess(resp)
    /\ Len(log) >= 3
    /\ notFound # {}

\* C2: once a path has answered 404, search_courses and
\* search_courses_by_state issue no further request to that path.
C2_NoRequestAfter404 ==
    [][(InSearch /\ Issued) => log'[Len(log')].path \notin notFound]_vars

\* C3: a path on which every request answered 404 receives at most as many
\* requests as there are parameter-name candidates.
C3_RequestsTo404Path ==
    InSearch =>
        \A i \in 1..Len(paths) :
            paths[i] \notin answered => RequestsTo(paths[i]) <= Len(keys)

\* Every parameter name was tried once on a path that only answers 404, and
\* the search has moved on.
C3_Witness ==
    /\ op = "search_courses"
    /\ Len(keys) > 1
    /\ paths[1] \in notFound
    /\ paths[1] \notin answered
    /\ RequestsTo(paths[1]) = Len(keys)
    /\ loop.p > 1

\* C4: in every probe loop a 401 or 403 to a combination whose auth style is
\* not the last leaves the operation probing, and the request the loop
\* issues next has the same path, the same parameter name and the next auth
\* style.
C4_AuthRejectedAdvancesStyle ==
    (pc # "idle" /\ log # <<>> /\ IsAuthRejected(resp)
       /\ LastRequest.style # "query")
        => /\ pc = "probing"
           /\ Request(loop) =
                 [LastRequest EXCEPT !.style = NextStyleOf(LastRequest.style)]

\* search_courses_by_name got a 403 to style bearer and goes on with style
\* x-api-key on the same path.
C4_Witness ==
    /\ op = "search_courses_by_name"
    /\ log # <<>>
    /\ resp.status = 403
    /\ LastRequest.style = "bearer"
    /\ pc = "probing"
    /\ Request(loop) = [LastRequest EXCEPT !.style = "x-api-key"]

\* C5: in search_courses and search_courses_by_state a 2xx response that
\* normalizes to zero courses does not end the search (the next auth style is
\* tried; the search ends on it only at the last combination, and then with
\* the empty list), and a non-empty return value is the normalization of a
\* response with at least one course.
C5_EmptyResultContinues ==
    (InSearch /\ log # <<>>) =>
        /\ (IsEmptyResult(resp) /\ LastRequest.style # "query") =>
              /\ ~SearchEnded
              /\ Request(loop) =
                    [LastRequest EXCEPT !.style = NextStyleOf(LastRequest.style)]
        /\ (IsEmptyResult(resp) /\ SearchEnded) =>
              /\ LastRequest = FinalRequest
              /\ result = <<>>
        /\ (SearchEnded /\ result # <<>>) =>
              /\ IsSuccess(resp)
              /\ Len(result) = CourseCount(resp.body)
              /\ \A i \in 1..Len(result) : result[i].raw = resp.body.items[i]

\* An empty 2xx answered the first auth style and the search goes on.
C5_Witness ==
    /\ op = "search_courses"
    /\ log # <<>>
    /\ IsEmptyResult(resp)
    /\ LastRequest.style = "key"
    /\ pc = "probing"
    /\ loop.s = 2

\* C6: search_courses_by_name does not return on a 2xx response that
\* normalizes to zero courses: unless it was the last combination, the
\* function is still probing.
C6_CliEmptyResultContinues ==
    (op = "search_courses_by_name" /\ log # <<>> /\ IsEmptyResult(resp)
       /\ LastRequest # FinalRequest)
        => pc = "probing"

\* C7: in health_check's account probe any 2xx response ends the probe: no
\* request follows it.
C7_HealthAny2xxEnds ==
    [][(op = "health_check" /\ phase = "account" /\ log # <<>> /\ Is2xx(resp))
         => ~Issued]_vars

\* C8: no exception leaves search_courses, search_courses_by_state or
\* search_courses_by_name, whatever a combination produces.  The ValueError
\* of resp.json() under a requests older than 2.27 is set aside: the statement
\* is the claim for the library most favourable to it.
C8_NoExceptionEscapes ==
    (InSearch \/ op = "search_courses_by_name") =>
        (pc = "raised" => exc = "ValueError")

\* C9: a search that has ended returned the empty list exactly when no
\* combination produced Success (a Success can only be the last response,
\* see C1).  As in C8 the ValueError of an old requests is set aside.
C9_EmptyIffNoSuccess ==
    (InSearch /\ SearchEnded /\ exc # "ValueError") =>
        ((pc # "raised" /\ result = <<>>) <=> ~(log # <<>> /\ IsSuccess(resp)))

\* C10: two paths, one parameter name and a service answering 404 on the
\* first path, 401 to style key and one course to style bearer on the second:
\* the requests are (path 1, key), (path 2, key), (path 2, bearer) and the
\* search returns the course after the third.
C10_Expected ==
    <<[path |-> paths[1], key |-> keys[1], style |-> "key"],
      [path |-> paths[2], key |-> keys[1], style |-> "key"],
      [path |-> paths[2], key |-> keys[1], style |-> "bearer"]>>

C10_InScenario ==
    /\ op \in {"search_courses", "search_courses_by_state", "search_courses_by_name"}
    /\ Len(paths) = 2
    /\ Len(keys) = 1
    /\ stub

C10_Scenario ==
    C10_InScenario =>
        /\ Len(log) <= 3
        /\ log = SubSeq(C10_Expected, 1, Len(log))
        /\ pc # "raised"
        /\ (pc = "returned") <=> (Len(log) = 3)
        /\ pc = "returned" => Len(result) = 1 /\ result[1].name = "Pebble Beach"

\* The scenario has run to its end.
C10_Witness ==
    /\ C10_InScenario
    /\ pc = "returned"
    /\ log = C10_Expected

----------------------------------------------------------------------------
\* Properties of the normalization, under SpecNormalize.

Normalized == npc \in {"normalized", "normalized_cli", "renormalized"}

\* The course elements of the input body that the normalizer in use reads.
InputCourses ==
    IF npc = "normalized_cli" THEN RawCoursesCli(data) ELSE RawCourses(data)

HasName(c) == Truthy(Get(c, "name")) \/ Truthy(Get(c, "course_name"))

\* C11: normalization maps a list of n course objects to n records; in every
\* record name is a non-empty string, the placeholder exactly when the element
\* has no non-empty name or course_name, and city, state and country are
\* present, the empty string when the element gives none.
C11_NormalizedRecords ==
    Normalized =>
        /\ Len(records) = Len(InputCourses)
        /\ \A i \in 1..Len(records) :
              LET r == records[i]
                  c == InputCourses[i]
              IN  /\ {"name", "city", "state", "country"} \subseteq DOMAIN r
                  /\ r.name \notin {"", None}
                  /\ (r.name = "(Unnamed Course)") <=> ~HasName(c)
                  /\ None \notin {r.city, r.state, r.country}
                  /\ r.state = "" /\ r.country = ""
                  /\ (~Truthy(Get(c, "city")) /\ ~Truthy(Get(c, "town")))
                        => r.city = ""

\* An element whose name is empty and that has no course_name was normalized
\* to a record with the placeholder.
C11_Witness ==
    /\ npc = "normalized"
    /\ Len(records) = 1
    /\ Get(data.items[1], "name") = ""
    /\ "course_name" \notin DOMAIN data.items[1]
    /\ records[1].name = "(Unnamed Course)"
    /\ records[1].city = ""

\* C12: for every record r that _normalize_courses produced,
\* _normalize_courses([r]) is the one-element list <<r>>: equal in id, name,
\* city, state, country and the raw-payload field.
C12_Idempotent ==
    npc = "renormalized" => again.as = <<again.of>>

----------------------------------------------------------------------------
\* The scorecard of one game (golf_cli.py)

\* Score rows the model lets the table hold for the game.
MaxRows == 1

\* Players the selected game may have: create_scorecard asks for up to four.
MaxPlayers == 2

\* `for hole in range(1, 19)`
NumHoles == 18

Holes == 1..NumHoles

\* `for i in range(1, 9): kb.add(str(i))(make_setter(i))`
BoundDigits == 1..8

\* The digit keys pressed in the interactive scorecard.
DigitKeys == {0, 5, 7, 9}

\* The strokes typed at record_score's prompt.
StrokeInputs == {0, 5, 9}

\* The numbers typed at record_score's hole prompt.
HoleInputs == 0..(NumHoles + 1)

PlayerNames == <<"Ann", "Bob", "Cy", "Dee">>

\* A row of the scores table (game_id is the selected game's).
Row(pid, hole, strokes) == [player |-> pid, hole |-> hole, strokes |-> strokes]

RowsOf(rows, pid, hole) == {r \in rows : r.player = pid /\ r.hole = hole}

\* Mutant: a plain INSERT, the conflicting row stays.
Insert(rows, pid, hole, strokes) == rows \cup {Row(pid, hole, strokes)}

\* INSERT ... ON CONFLICT (game_id, player_id, hole_number) DO UPDATE SET strokes
Upsert(rows, pid, hole, strokes) ==
    (rows \ RowsOf(rows, pid, hole)) \cup {Row(pid, hole, strokes)}

\* str() of a non-negative integer.
RECURSIVE Str(_)
Str(n) ==
    LET digit == <<"0", "1", "2", "3", "4", "5", "6", "7", "8", "9">>
    IN  IF n < 10 THEN digit[n + 1] ELSE Str(n \div 10) \o digit[(n % 10) + 1]

\* SELECT strokes ... ; cur.fetchone(): the strokes of the row, None without one.
FetchOne(rows, pid, hole) ==
    LET found == RowsOf(rows, pid, hole)
    IN  IF found = {} THEN None ELSE Str((CHOOSE r \in found : TRUE).strokes)

\* `str(res[0]) if res else "-"`
fetch_cell(rows, pid, hole) ==
    LET res == FetchOne(rows, pid, hole)
    IN  IF res = None THEN "-" ELSE res

RECURSIVE SumStrokes(_)
SumStrokes(rows) ==
    IF rows = {} THEN 0
    ELSE LET r == CHOOSE x \in rows : TRUE
         IN  r.strokes + SumStrokes(rows \ {r})

\* SELECT SUM(strokes) ... hole_number = ANY(holes): NULL when no row matches.
sum_for(rows, pid, holes) ==
    LET sel == {r \in rows : r.player = pid /\ r.hole \in holes}
    IN  IF sel = {} THEN None ELSE Str(SumStrokes(sel))

\* Mutant: a missing sum is printed as a number.
DisplayZero(v) == IF v = None THEN "0" ELSE v

\* `str(v) if v is not None else "-"`
Display(v) == IF v = None THEN "-" ELSE v

\* SELECT COUNT(strokes), COALESCE(SUM(strokes),0)
CountAndTotal(rows, pid) ==
    LET sel == {r \in rows : r.player = pid}
    IN  [holes |-> Str(Cardinality(sel)), total |-> Str(SumStrokes(sel))]

\* One line of output: its kind, its label and its cells.
Line(kind, label, cells) == [kind |-> kind, label |-> label, cells |-> cells]

Cell(text, selected) == [text |-> text, selected |-> selected]

\* Mutant: the whole row of the cursor is highlighted.
SelectedRow(hole, idx, cur) == hole = cur.hole

\* `if hole == cursor["hole"] and idx == cursor["player"]`
Selected(hole, idx, cur) == hole = cur.hole /\ idx = cur.player

\* render_tokens: the header, the rule, one line per hole, the hint.
render_tokens(rows, ps, cur) ==
    <<Line("header", "Hole", [i \in 1..Len(ps) |-> Cell(ps[i], FALSE)]),
      Line("rule", "", <<>>)>>
    \o [hole \in Holes |->
          Line("hole", Str(hole),
               [i \in 1..Len(ps) |->
                  Cell(fetch_cell(rows, ps[i], hole), Selected(hole, i - 1, cur))])]
    \o <<Line("hint", "", <<>>)>>

\* Mutant: the handler forgets event.app.invalidate(), the old render stays.
InvalidateSkipped(rows, cur) == screen

\* event.app.invalidate(): the window is drawn again; render_tokens reads the
\* table and the cursor as they are then.
Invalidate(rows, cur) == [rows |-> rows, cursor |-> cur]

\* What the window shows.
Rendered == render_tokens(screen.rows, players, screen.cursor)

\* The write keeps the table within the rows the model lets it hold.
CanWrite(rows, pid, hole) ==
    RowsOf(rows, pid, hole) # {} \/ Cardinality(rows) < MaxRows

\* The scores the game has when the program is started: none, or those of an
\* earlier run (4 and 5 on holes 2 and 5 of the first player).
InitialScores(ps) ==
    IF ps = <<>> THEN { {} } ELSE { {}, {Row(ps[1], 2, 4), Row(ps[1], 5, 5)} }

\* psycopg.connect(DB_CONN): one more connection is open.
connect(n) == n + 1

\* Mutant: leaving the with block commits and leaves the connection open.
close_leak(n) == n

\* The end of `with psycopg.connect(DB_CONN) as conn`, by its last statement,
\* by return or by an exception: the connection is closed.
close(n) == IF n > 0 THEN n - 1 ELSE n

\* `with psycopg.connect(DB_CONN) as conn: ...` from its entry to its exit.
With(n) == close(connect(n))

\* Mutant: prompt_int returns whatever number is typed.
prompt_int_unchecked(val, min_val, max_val) == val \in Int

\* prompt_int(prompt, min_val, max_val) asks again until the number typed is
\* within the limits: val is the number it returns.
prompt_int(val, min_val, max_val) == ~(val < min_val) /\ ~(val > max_val)

\* Mutant: the player list is not examined.
NoPlayersIgnored(ps) == ps # ps

\* `if not players`
NoPlayers(ps) == ps = <<>>

InitCard ==
    /\ ProbeIdle
    /\ NormIdle
    /\ CreateIdle
    /\ \E n \in 0..MaxPlayers : players = Take(PlayerNames, n)
    /\ scores \in InitialScores(players)
    /\ mode = "menu"
    /\ cursor = NoCursor
    /\ screen = NoScreen
    /\ printed = <<>>
    /\ tick = FALSE
    /\ conns = 0

\* Menu 2: player, hole and strokes are prompted for, then the upsert.  The
\* connections of list_games and of record_score itself are closed on return.
record_score ==
    /\ mode = "menu"
    /\ IF NoPlayers(players)
         THEN /\ printed' = <<Line("error", "No players for this game.", <<>>)>>
              /\ scores' = scores
         ELSE \E i \in 1..Len(players), hole \in HoleInputs,
                   strokes \in StrokeInputs :
                /\ prompt_int(hole, 1, 18)
                /\ prompt_int(strokes, 1, 8)
                /\ CanWrite(scores, players[i], hole)
                /\ scores' = Upsert(scores, players[i], hole, strokes)
                /\ printed' =
                      <<Line("recorded", players[i], <<Str(hole), Str(strokes)>>)>>
    /\ conns' = With(With(conns))
    /\ UNCHANGED <<probe_vars, norm_vars, create_vars, players, mode, cursor, screen, tick>>

\* Menu 3: the header, one line per hole, then Front, Back and Total.
show_scorecard ==
    /\ mode = "menu"
    /\ printed' =
          IF NoPlayers(players) THEN <<Line("note", "(No players)", <<>>)>>
          ELSE
          <<Line("header", "Hole", players)>>
          \o [hole \in Holes |->
                Line("hole", Str(hole),
                     [i \in 1..Len(players) |-> fetch_cell(scores, players[i], hole)])]
          \o <<Line("sum", "Front",
                    [i \in 1..Len(players) |-> Display(sum_for(scores, players[i], 1..9))]),
               Line("sum", "Back",
                    [i \in 1..Len(players) |-> Display(sum_for(scores, players[i], 10..18))]),
               Line("sum", "Total",
                    [i \in 1..Len(players) |-> Display(sum_for(scores, players[i], 1..18))])>>
    /\ conns' = With(With(conns))
    /\ UNCHANGED <<probe_vars, norm_vars, create_vars, players, scores, mode, cursor, screen, tick>>

\* Menu 5: "<name> -- <holes> holes complete -- <total>" per player.
total_scores ==
    /\ mode = "menu"
    /\ printed' =
          IF NoPlayers(players) THEN <<Line("note", "(No players)", <<>>)>>
          ELSE
          [i \in 1..Len(players) |->
             Line("total", players[i],
                  <<CountAndTotal(scores, players[i]).holes,
                    CountAndTotal(scores, players[i]).total>>)]
    /\ conns' = With(With(conns))
    /\ UNCHANGED <<probe_vars, norm_vars, create_vars, players, scores, mode, cursor, screen, tick>>

\* Menu 4: without players the function prints the refusal and returns from
\* inside the with block; otherwise the application starts with the cursor on
\* hole 1, player 0, and its first render reads the table.
interactive_scorecard ==
    /\ mode = "menu"
    /\ IF NoPlayers(players)
         THEN /\ printed' = <<Line("refusal", "No players for this game.", <<>>)>>
              /\ conns' = With(With(conns))
              /\ UNCHANGED <<mode, cursor, screen>>
         ELSE /\ mode' = "grid"
              /\ cursor' = [hole |-> 1, player |-> 0]
              /\ screen' = Invalidate(scores, cursor')
              /\ printed' = <<>>
              /\ conns' = With(With(With(conns)))
    /\ UNCHANGED <<probe_vars, norm_vars, create_vars, players, scores, tick>>

Max(a, b) == IF a > b THEN a ELSE b
Min(a, b) == IF a < b THEN a ELSE b

\* A cursor key: the cursor moves to cur and the window is invalidated.
Move(cur) ==
    /\ mode = "grid"
    /\ cursor' = cur
    /\ screen' = Invalidate(scores, cur)
    /\ tick' = ~tick
    /\ conns' = With(conns)
    /\ UNCHANGED <<probe_vars, norm_vars, create_vars, players, scores, mode, printed>>

key_left == Move([cursor EXCEPT !.player = Max(0, cursor.player - 1)])

key_right ==
    Move([cursor EXCEPT !.player = Min(Len(players) - 1, cursor.player + 1)])

key_up == Move([cursor EXCEPT !.hole = Max(1, cursor.hole - 1)])

key_down == Move([cursor EXCEPT !.hole = Min(NumHoles, cursor.hole + 1)])

\* Mutant: the handlers close over the loop variable and all write its last
\* value.
make_setter_late(strokes) == CHOOSE d \in BoundDigits : \A e \in BoundDigits : e <= d

\* make_setter(strokes): the strokes the handler it returns writes.
make_setter(strokes) == strokes

\* make_setter(strokes)._set: the upsert for the cell under the cursor.
set_strokes(strokes) ==
    /\ CanWrite(scores, players[cursor.player + 1], cursor.hole)
    /\ scores' = Upsert(scores, players[cursor.player + 1], cursor.hole,
                        make_setter(strokes))
    /\ screen' = Invalidate(scores', cursor)
    /\ tick' = ~tick
    /\ conns' = With(With(conns))
    /\ UNCHANGED <<probe_vars, norm_vars, create_vars, players, mode, cursor, printed>>

\* Digit key d: bound to make_setter(d) for d in 1..8, to nothing otherwise.
Digit(d) ==
    /\ mode = "grid"
    /\ IF d \in BoundDigits THEN set_strokes(d)
       ELSE /\ tick' = ~tick
            /\ UNCHANGED <<probe_vars, norm_vars, create_vars, players, scores, mode, cursor,
                           screen, printed, conns>>

key_digit == \E d \in DigitKeys : Digit(d)

\* Mutant: q is bound to a handler that leaves the application running.
app_stay == "grid"

\* event.app.exit(): app.run() returns, interactive_scorecard returns to the
\* menu and the key bindings are gone with the application.
app_exit == "menu"

\* q: event.app.exit().  The handler opens no connection.
key_q ==
    /\ mode = "grid"
    /\ mode' = app_exit
    /\ cursor' = NoCursor
    /\ screen' = NoScreen
    /\ tick' = FALSE
    /\ UNCHANGED <<probe_vars, norm_vars, create_vars, players, scores, printed, conns>>

NextCard ==
    \/ record_score
    \/ show_scorecard
    \/ total_scores
    \/ interactive_scorecard
    \/ key_left
    \/ key_right
    \/ key_up
    \/ key_down
    \/ key_digit
    \/ key_q

SpecCard == InitCard /\ [][NextCard]_vars

----------------------------------------------------------------------------
\* Properties of the interactive scorecard, under SpecCard.

InGrid == mode = "grid"

\* The cursor's column and the number of players.
Column == cursor.player
P == Len(players)

\* The strokes the table holds for a player and a hole.
StrokesAt(rows, pid, hole) == {r.strokes : r \in RowsOf(rows, pid, hole)}

\* The player the cursor addresses.
CurrentPlayer == players[cursor.player + 1]

\* The lines of a kind in an output.
LinesOf(out, kind) == SelectSeq(out, LAMBDA l : l.kind = kind)

\* C13: with P players the cursor hole is in 1..18 and the cursor column in
\* 0..P; left, right, up and down change their coordinate by exactly one inside
\* the range and leave it at 0, P, 1 and 18.
C13_CursorSaturates ==
    /\ [](InGrid => (cursor.hole \in 1..18 /\ Column \in 0..P))
    /\ [][key_left => Column' = (IF Column = 0 THEN 0 ELSE Column - 1)]_vars
    /\ [][key_right => Column' = (IF Column = P THEN P ELSE Column + 1)]_vars
    /\ [][key_up =>
            cursor'.hole = (IF cursor.hole = 1 THEN 1 ELSE cursor.hole - 1)]_vars
    /\ [][key_down =>
            cursor'.hole = (IF cursor.hole = 18 THEN 18 ELSE cursor.hole + 1)]_vars

\* C14: with the cursor on column 0 (the par column) a digit outside 3..6
\* changes nothing: no stroke value is written, the cursor and the window stay.
C14_ParColumnRejects ==
    [][(InGrid /\ Column = 0 /\ \E d \in DigitKeys \ (3..6) : Digit(d))
         => UNCHANGED <<scores, cursor, screen>>]_vars

\* C15: with the cursor on a player's column (in the code every column is a
\* player's) a digit d in 1..8 sets the strokes of the current player on the
\* current hole to d, and the digits 0 and 9 leave every strokes cell as it is.
C15_DigitSetsStrokes ==
    [][\A d \in DigitKeys :
          (InGrid /\ Digit(d)) =>
              IF d \in 1..8
              THEN StrokesAt(scores', CurrentPlayer, cursor.hole) = {d}
              ELSE scores' = scores /\ mode' = "grid"]_vars

\* The second player's cell under the cursor holds the 7 that only the digit
\* key writes.
C15_Witness ==
    /\ InGrid
    /\ cursor.player = 1
    /\ StrokesAt(scores, players[2], cursor.hole) = {7}

\* C16: an accepted digit changes only the cell under the cursor and not the
\* cursor; and with 2 players, the cursor brought from (hole 1, column 0) to
\* hole 18 by pressing down, digit 5 sets the par of hole 18 and changes no
\* player's strokes.
C16_EditChangesOneCell ==
    /\ [][\A d \in DigitKeys \cap BoundDigits :
            (InGrid /\ Digit(d)) =>
                /\ cursor' = cursor
                /\ \A i \in 1..P, hole \in Holes :
                      (players[i] # CurrentPlayer \/ hole # cursor.hole) =>
                          StrokesAt(scores', players[i], hole) =
                              StrokesAt(scores, players[i], hole)]_vars
    /\ [][(InGrid /\ P = 2 /\ cursor = [hole |-> 18, player |-> 0] /\ Digit(5))
            => scores' = scores]_vars

\* C17: while the interactive scorecard runs, the text its window shows for
\* each player and hole is the strokes the table holds for them, and the
\* absent marker exactly when the table has no row.
C17_ViewIsStore ==
    InGrid =>
        LET window == Rendered
        IN  \A i \in 1..P, hole \in Holes :
                LET text == window[2 + hole].cells[i].text
                    held == StrokesAt(scores, players[i], hole)
                IN  /\ (text = "-") <=> (held = {})
                    /\ held # {} => \E v \in held : text = Str(v)

\* The window shows the 7 just typed into the cell under the cursor.
C17_Witness ==
    /\ InGrid
    /\ StrokesAt(scores, CurrentPlayer, cursor.hole) = {7}
    /\ Rendered[2 + cursor.hole].cells[cursor.player + 1].text = "7"

\* C18: the window marks exactly one cell, the one at the cursor, and it is
\* drawn from the current values and cursor whatever keys led there.
C18_OneFocusedCell ==
    InGrid =>
        LET window == Rendered
        IN  /\ \A l \in 1..Len(window), i \in 1..P :
                   (i \in DOMAIN window[l].cells /\ window[l].cells[i].selected)
                       <=> (l = 2 + cursor.hole /\ i = cursor.player + 1)
            /\ cursor.hole \in Holes /\ cursor.player + 1 \in 1..P
            /\ screen = Invalidate(scores, cursor)

\* With two players and a score in the table the focus is on the second
\* player's cell of hole 3.
C18_Witness ==
    /\ InGrid
    /\ P = 2
    /\ scores # {}
    /\ cursor = [hole |-> 3, player |-> 1]
    /\ Rendered[5].cells[2].selected

\* C19: the window has one header row labelling hole, par and each player,
\* 18 data rows (a par cell and one cell per player each) and the three
\* aggregate rows Front, Back and Total.
C19_RenderLayout ==
    InGrid =>
        /\ Len(LinesOf(Rendered, "header")) = 1
        /\ Len(LinesOf(Rendered, "header")[1].cells) = 1 + P
        /\ Len(LinesOf(Rendered, "hole")) = 18
        /\ \A n \in 1..Len(LinesOf(Rendered, "hole")) :
              Len(LinesOf(Rendered, "hole")[n].cells) = 1 + P
        /\ [n \in 1..Len(LinesOf(Rendered, "sum")) |->
              LinesOf(Rendered, "sum")[n].label] = <<"Front", "Back", "Total">>

\* The strokes of a player summed hole by hole up to hole n, within `range`.
RECURSIVE SumUpTo(_, _, _, _)
SumUpTo(rows, pid, range, n) ==
    IF n = 0 THEN 0
    ELSE SumUpTo(rows, pid, range, n - 1)
         + (IF n \in range /\ StrokesAt(rows, pid, n) # {}
            THEN CHOOSE v \in StrokesAt(rows, pid, n) : TRUE ELSE 0)

\* What an aggregate over `range` is to show: the sum of the defined cells,
\* the absent marker when there is none.
Aggregate(rows, pid, range) ==
    IF \A hole \in range : StrokesAt(rows, pid, hole) = {} THEN "-"
    ELSE Str(SumUpTo(rows, pid, range, NumHoles))

\* C20: for every player Front, Back and Total, in show_scorecard and in
\* total_scores, are the sums of the defined cells over holes 1-9, 10-18 and
\* 1-18, and absent, never 0, when no cell of the range is defined.
C20_Aggregates ==
    /\ (printed # <<>> /\ printed[1].kind = "header") =>
          /\ Len(LinesOf(printed, "sum")) = 3
          /\ \A i \in 1..P :
                /\ LinesOf(printed, "sum")[1].cells[i] = Aggregate(scores, players[i], 1..9)
                /\ LinesOf(printed, "sum")[2].cells[i] = Aggregate(scores, players[i], 10..18)
                /\ LinesOf(printed, "sum")[3].cells[i] = Aggregate(scores, players[i], 1..18)
    /\ (printed # <<>> /\ printed[1].kind = "total") =>
          \A i \in 1..P : printed[i].cells[2] = Aggregate(scores, players[i], 1..18)

\* C20 as amended: show_scorecard prints Front, Back and Total as in C20;
\* total_scores prints per player the number of holes scored and the sum of
\* their strokes, 0 with 0 holes when the player has no score.
C20_AggregatesAmended ==
    /\ (printed # <<>> /\ printed[1].kind = "header") =>
          /\ Len(LinesOf(printed, "sum")) = 3
          /\ \A i \in 1..P :
                /\ LinesOf(printed, "sum")[1].cells[i] = Aggregate(scores, players[i], 1..9)
                /\ LinesOf(printed, "sum")[2].cells[i] = Aggregate(scores, players[i], 10..18)
                /\ LinesOf(printed, "sum")[3].cells[i] = Aggregate(scores, players[i], 1..18)
    /\ (printed # <<>> /\ printed[1].kind = "total") =>
          \A i \in 1..P :
              /\ printed[i].cells[1] =
                    Str(Cardinality({hole \in Holes :
                                       StrokesAt(scores, players[i], hole) # {}}))
              /\ printed[i].cells[2] = Str(SumUpTo(scores, players[i], Holes, NumHoles))

\* show_scorecard printed 9, absent, 9 for scores 4 and 5 on holes 2 and 5.
C20_Witness ==
    /\ printed # <<>>
    /\ printed[1].kind = "header"
    /\ scores = {Row(players[1], 2, 4), Row(players[1], 5, 5)}
    /\ LinesOf(printed, "sum")[1].cells[1] = "9"
    /\ LinesOf(printed, "sum")[2].cells[1] = "-"
    /\ LinesOf(printed, "sum")[3].cells[1] = "9"

\* C21: q ends the grid session with no connection to the store open, and the
\* end is final: outside a session there is no open connection, no key event
\* is handled, the cursor and the window stay as the exit left them until a new
\* session starts, and a stored value changes only by record_score.
C21_QuitIsTerminal ==
    /\ [][key_q => (InGrid /\ ~InGrid' /\ conns' = 0 /\ scores' = scores)]_vars
    /\ [](~InGrid => (conns = 0 /\ cursor = NoCursor /\ screen = NoScreen))
    /\ [][(~InGrid /\ ~InGrid') => UNCHANGED <<cursor, screen, tick>>]_vars
    /\ [][(~InGrid /\ scores' # scores) => record_score]_vars

\* A session has written a 7 and has been left with q.
C21_Witness ==
    /\ mode = "menu"
    /\ \E r \in scores : r.strokes = 7
    /\ conns = 0
    /\ cursor = NoCursor

\* C22: a game without players never has a grid session: nothing is rendered,
\* no key event is handled, and interactive_scorecard prints its refusal and
\* returns with the table as it was.
C22_NoPlayersRefused ==
    /\ [](P = 0 => (~InGrid /\ cursor = NoCursor /\ screen = NoScreen /\ ~tick))
    /\ [][(P = 0 /\ interactive_scorecard) =>
            /\ scores' = scores
            /\ LinesOf(printed', "refusal") = printed'
            /\ printed' # <<>>]_vars

\* interactive_scorecard has refused a game without players.
C22_Witness ==
    /\ P = 0
    /\ LinesOf(printed, "refusal") # <<>>
    /\ mode = "menu"
    /\ scores = {}

\* The rows of a table other than those of one player and one hole.
Others(rows, pid, hole) == rows \ RowsOf(rows, pid, hole)

\* C23: the table holds at most one row per player and hole; a write of
\* record_score or of a digit key leaves exactly the value written under its
\* key and every other row as it was; and writing a value a second time gives
\* the table the first write gave.
C23_IdempotentUpsert ==
    /\ [](\A r1 \in scores, r2 \in scores :
            (r1.player = r2.player /\ r1.hole = r2.hole) => r1 = r2)
    /\ [][(record_score /\ P > 0) =>
            \E i \in 1..P, hole \in Holes, strokes \in BoundDigits :
                /\ printed' = <<Line("recorded", players[i],
                                     <<Str(hole), Str(strokes)>>)>>
                /\ StrokesAt(scores', players[i], hole) = {strokes}
                /\ Others(scores', players[i], hole) = Others(scores, players[i], hole)]_vars
    /\ [][\A d \in DigitKeys \cap BoundDigits :
            Digit(d) =>
                /\ StrokesAt(scores', CurrentPlayer, cursor.hole) = {d}
                /\ Others(scores', CurrentPlayer, cursor.hole)
                     = Others(scores, CurrentPlayer, cursor.hole)]_vars
    /\ [](\A i \in 1..P, hole \in {r.hole : r \in scores} \cup {cursor.hole},
            strokes \in BoundDigits :
            LET once == Upsert(scores, players[i], hole, strokes)
            IN  Upsert(once, players[i], hole, strokes) = once)

\* A 7 written in the grid has replaced the 4 the table held for the first
\* player on hole 2; the row of hole 5 is as it was.
C23_Witness ==
    /\ InGrid
    /\ scores = {Row(players[1], 2, 7), Row(players[1], 5, 5)}

\* C26: every row of the table has its hole in 1..18, its strokes in 1..8 and
\* a player of the game, and every row a step adds or changes is such a row.
C26_RowsInDomain ==
    \A r \in scores :
        /\ r.hole \in 1..18
        /\ r.strokes \in 1..8
        /\ \E i \in 1..P : players[i] = r.player

\* record_score has written a 5 for the last player on hole 18.
C26_Witness ==
    /\ P = MaxPlayers
    /\ scores = {Row(players[P], 18, 5)}
    /\ LinesOf(printed, "recorded") # <<>>

\* The path an operation tries first (the operator's override; without one,
\* golf_cli.py's default) and the operation's fallback paths in their fixed
\* order.
Override == env_search_path
Leading ==
    IF Override # None THEN <<Override>>
    ELSE IF op = "search_courses_by_name" THEN <<"/v1/courses/search">>
    ELSE <<>>
FallbacksOf ==
    IF op = "search_courses_by_name" THEN <<"/api/v1/courses/search">>
    ELSE FALLBACK_SEARCH_PATHS

\* The operation has built its list of search paths (these are not the paths
\* of get_course_by_id or of health_check's account probe, and
\* search_courses_by_name builds none when it returns for want of an API key).
ProbesSearchPaths ==
    /\ pc # "idle"
    /\ paths # <<>>
    /\ op \notin {"get_course_by_id"}
    /\ ~(op = "health_check" /\ phase = "account")

\* C24: every probe operation ends; no request of a probe loop is issued
\* twice and the loop issues at most |paths| x |parameter names| x 4 requests;
\* the path list has no duplicates, starts with the override when one is set
\* and continues with the fallback paths other than the override in their
\* fixed order.
C24_TerminatesWithoutRepeats ==
    /\ [](Cardinality({log[i] : i \in 1..Len(log)}) = Len(log))
    /\ [](Len(log) <= Len(paths) * Len(keys) * Len(AUTH_STYLES))
    /\ [](Cardinality({paths[i] : i \in 1..Len(paths)}) = Len(paths))
    /\ [](ProbesSearchPaths =>
            paths = Leading \o SelectSeq(FallbacksOf, LAMBDA p : <<p>> # Leading))
    /\ [][pc = "probing" =>
            \/ Issued
            \/ phase = "searched" /\ (pc' = "returned" \/ phase' = "account")]_vars
    /\ (pc = "probing" ~> pc \in {"returned", "raised"})

\* search_courses_by_name has ended after the whole matrix of its only path:
\* the override equals the second fallback path.
C24_Witness ==
    /\ op = "search_courses_by_name"
    /\ pc = "returned"
    /\ Override = "/api/v1/courses/search"
    /\ paths = <<Override>>
    /\ Len(log) = Len(paths) * Len(keys) * Len(AUTH_STYLES)

\* C25: when health_check's search ended on a 2xx response, the report says
\* key_valid = true, also when that response carried no course.
C25_HealthEmptyIsValid ==
    (op = "health_check" /\ phase = "searched" /\ pc = "returned" /\ Is2xx(resp))
        => report.key_valid

----------------------------------------------------------------------------
\* create_scorecard (golf_cli.py), under SpecCreate

\* The games the table holds at most.
MaxGames == 3

\* `for idx in range(1, 5)`: the player prompts of one creation.
PlayerSlots == 4

\* date.today().strftime("%m/%d/%Y")
today_str == "11/05/2026"

\* What is typed at the course prompt, at the date prompt and at the player
\* prompts (one line per prompt), and the names search_courses_interactive
\* hands over as prefill_course: the service's names, one of them a blank.
CourseNameInputs == {"", " ", "Pebble Beach"}
DateInputs == {"", "13/45/2026"}
NameInputs ==
    { <<"">>, <<" ", "Ann">>, <<"Ann", " ">>, <<"Bob", "Ann", "">>,
      PlayerNames \o <<"Eve">> }
PickedNames == {"Augusta", " "}

\* str.strip() on the strings above.
strip(s) == IF s \in {"", " "} THEN "" ELSE s

\* prompt_with_default: `raw = input(...).strip(); return raw or default_val`
prompt_with_default(raw, default_val) == Or(strip(raw), default_val)

\* parse_date_mmddyyyy: the date, None where it raises MenuError.
parse_date_mmddyyyy(str) == IF str = today_str THEN "2026-11-05" ELSE None

\* SELECT 1 FROM games WHERE game_id = %s
Taken(stored, game_id) == \E i \in 1..Len(stored) : stored[i].game_id = game_id

\* Mutant: the base id is used whether or not a game has it.
FirstFreeIdUnchecked(stored, base_game_id, suffix) == base_game_id

\* The `while True` loop: the base id, then "<base> #2", "<base> #3", ... until
\* no game has the id.
RECURSIVE FirstFreeId(_, _, _)
FirstFreeId(stored, base_game_id, suffix) ==
    LET game_id == IF suffix = 1 THEN base_game_id
                   ELSE base_game_id \o " #" \o Str(suffix)
    IN  IF Taken(stored, game_id)
        THEN FirstFreeId(stored, base_game_id, suffix + 1)
        ELSE game_id

\* The player loop: the stripped names typed before the first blank one, at
\* most PlayerSlots of them.
RECURSIVE ReadPlayers(_, _)
ReadPlayers(typed, idx) ==
    IF idx > PlayerSlots \/ typed = <<>> \/ strip(Head(typed)) = "" THEN <<>>
    ELSE <<strip(Head(typed))>> \o ReadPlayers(Tail(typed), idx + 1)

\* conn.rollback(): the table is as it was before the transaction.
rollback(stored, pending) == stored

\* The ends of create_scorecard.
Created(outcome, prefill, course, date_str, typed, game_id) ==
    [outcome |-> outcome, prefill |-> prefill, course |-> course,
     date_str |-> date_str, typed |-> typed, game_id |-> game_id]

create_scorecard(prefill_course) ==
    /\ Len(games) < MaxGames
    /\ \E raw_course \in CourseNameInputs, raw_date \in DateInputs, typed \in NameInputs :
          LET course == IF Truthy(prefill_course)
                        THEN strip(prompt_with_default(raw_course, prefill_course))
                        ELSE strip(raw_course)
              date_str == prompt_with_default(raw_date, today_str)
              date_obj == parse_date_mmddyyyy(date_str)
              game_id == FirstFreeId(games, course \o " - " \o date_str, 1)
              names == ReadPlayers(typed, 1)
              pending == Append(games, [game_id |-> game_id, course_name |-> course,
                                        game_date |-> date_obj, players |-> names])
              end(outcome, id) ==
                  created' = Created(outcome, prefill_course, course, date_str,
                                     typed, id)
          IN  IF ~Truthy(prefill_course) /\ ~Truthy(course)
              THEN end("no_course", "") /\ games' = games
              ELSE IF date_obj = None
              THEN end("bad_date", "") /\ games' = games
              ELSE IF names = <<>>
              THEN end("no_players", "") /\ games' = rollback(games, pending)
              ELSE end("committed", game_id) /\ games' = pending
    /\ UNCHANGED <<probe_vars, norm_vars, card_vars>>

\* Menu 1.
menu_create_scorecard == create_scorecard(None)

\* Menu 7, answered "y": the picked course's name is the prefill.
search_courses_interactive ==
    \E picked_name \in PickedNames : create_scorecard(picked_name)

InitCreate ==
    /\ ProbeIdle
    /\ NormIdle
    /\ CardIdle
    /\ CreateIdle

NextCreate ==
    \/ menu_create_scorecard
    \/ search_courses_interactive

SpecCreate == InitCreate /\ [][NextCreate]_vars

----------------------------------------------------------------------------
\* Properties of create_scorecard, under SpecCreate.

\* "<base> #<n>"
Numbered(base, n) == base \o " #" \o Str(n)

\* The step commits a game: the table is the old one and one game after it.
Commits ==
    /\ Len(games') = Len(games) + 1
    /\ SubSeq(games', 1, Len(games)) = games

\* C27: the game ids of the table are pairwise distinct, and a committed game
\* has the id "<course> - <date>" when no game had it and otherwise the first
\* of "<course> - <date> #2", "#3", ... that no game had.
C27_DistinctGameIds ==
    /\ [](\A i \in 1..Len(games), j \in 1..Len(games) :
            i # j => games[i].game_id # games[j].game_id)
    /\ [][games' # games =>
            /\ Commits
            /\ LET new == games'[Len(games')]
                   base == new.course_name \o " - " \o created'.date_str
               IN  IF ~Taken(games, base) THEN new.game_id = base
                   ELSE \E n \in 2..(Len(games) + 1) :
                          /\ new.game_id = Numbered(base, n)
                          /\ ~Taken(games, Numbered(base, n))
                          /\ \A m \in 2..(n - 1) : Taken(games, Numbered(base, m))]_vars

\* The third game of a course and a date has the id with #3.
C27_Witness ==
    /\ Len(games) = 3
    /\ games[1].game_id = "Pebble Beach - " \o today_str
    /\ games[2].game_id = Numbered(games[1].game_id, 2)
    /\ games[3].game_id = Numbered(games[1].game_id, 3)

\* The first name typed at the player prompts is blank.
FirstNameBlank(typed) == typed = <<>> \/ strip(Head(typed)) = ""

\* C28: a creation commits one game with between 1 and 4 players or commits
\* nothing; it commits nothing exactly when the course name is empty, the date
\* is invalid or the first player name is blank; so every game of the table has
\* between 1 and 4 players and none is refused by the grid session.
C28_AllOrNothing ==
    /\ [](\A i \in 1..Len(games) :
            /\ Len(games[i].players) \in 1..4
            /\ ~NoPlayers(games[i].players))
    /\ [][games' # games =>
            (Commits /\ Len(games'[Len(games')].players) \in 1..4)]_vars
    /\ [](created.outcome # "none" =>
            (created.outcome # "committed" <=>
                \/ created.course = ""
                \/ parse_date_mmddyyyy(created.date_str) = None
                \/ FirstNameBlank(created.typed)))

\* Every game of the table has between 1 and 4 players.
PlayersPerGame ==
    \A i \in 1..Len(games) : Len(games[i].players) \in 1..PlayerSlots

====
